---- MODULE Spec2Model ----
(***************************************************************************)
(* Model of the google-pronouncer command line (google_pronouncer/cli.py). *)
(* One CLI invocation is main(): it parses the arguments, builds the       *)
(* DownloadConfig and the downloader, and dispatches to process_words,     *)
(* show_cache_info or clear_cache.  The downloader itself                  *)
(* (google_pronouncer/downloader.py) is modelled from its contract: the    *)
(* Cache Index, the Fetcher and the Orchestrator of the specification.     *)
(* The cache directory persists between invocations.                       *)
(***************************************************************************)
EXTENDS Integers, Sequences, FiniteSets, TLC

\* ---------------------------------------------------------------- bounds
MaxWords == 2

Words == {"cat", "dog"}
Accents == <<"gb", "us">>
AccentSet == {Accents[k] : k \in 1..Len(Accents)}
AccentChoices == {"gb", "us", "all"}
Keys == Words \X AccentSet

WordLists == UNION {[1..n -> Words] : n \in 0..MaxWords}

\* What one attempt to obtain the audio of a (word, accent) meets, when the
\* Fetcher is invoked: a FetchError (Timeout, NotFound, NetworkError and
\* ServiceError are propagated alike, one outcome stands for the four), a
\* response with no audio, a failing write/store, or the process being
\* killed in the middle of the store.
FetchErrors == {"FetchError"}
Outcomes == {"ok", "Empty", "IOError", "Crash"} \cup FetchErrors
\* What a call into the downloader can raise by itself, outside resolve.
Faults == {"none", "CacheError", "Unexpected"}

VARIABLES
    files,      \* (word, accent) keys whose audio file exists, non-empty
    entries,    \* (word, accent) keys that have a CacheEntry (metadata)
    pc,         \* "idle" | "download" | "returned" | "escaped" | "crashed"
    args,       \* the parsed command line of the current invocation
    config,     \* the DownloadConfig built from it
    i,          \* process_words: index of the next word of the loop
    success,    \* process_words: the success flag
    exit,       \* exit code returned by main, -1 while none
    attempted,  \* words handed to the downloader so far, in call order
    produced,   \* per attempted word: did the call yield at least one path
    calls,      \* the resolve calls of the last processed word
    paths,      \* the paths the last processed word yielded
    raised,     \* the exception the call for that word raised, or "none"
    output,     \* what cache-info printed: <<[word, found]>>
    cleared,    \* words cleared and not downloaded since
    emptied     \* those of them whose clearing removed a CacheEntry

vars == <<files, entries, pc, args, config, i, success, exit, attempted,
          produced, calls, paths, raised, output, cleared, emptied>>

NoArgs == [command |-> "none", words |-> <<>>, accent |-> "all",
           no_cache |-> FALSE, force_download |-> FALSE]

\* ------------------------------------------------------------ Cache Index
\* lookup(word, accent): the entry, or absent.
Lookup(ents, w, a) == <<w, a>> \in ents

\* listAll(word): the entries of one word; get_cache_info(word) is empty
\* (falsy) when the word has none.
GetCacheInfo(ents, w) == {k \in ents : k[1] = w}

\* clear(word): delete the cached files and metadata of one word.
ClearWord(cache, w) ==
    [files   |-> {k \in cache.files : k[1] # w},
     entries |-> {k \in cache.entries : k[1] # w}]

\* clear(): delete everything.
ClearAll(cache) == [files |-> {}, entries |-> {}]

\* Store as it would be if the audio file were written first and the
\* metadata after it, without the rename: a crash between the two leaves the
\* file without its metadata.
StoreNotAtomic(cache, k, outcome) ==
    CASE outcome = "ok" ->
            [files |-> cache.files \cup {k}, entries |-> cache.entries \cup {k}]
      [] outcome = "Crash" ->
            [files |-> cache.files \cup {k}, entries |-> cache.entries]
      [] OTHER -> cache

\* store(entry): the audio file and its metadata record are written as one
\* atomic step (write-temp-then-rename): a failed store and a store cut
\* short by a crash leave neither of the two.
Store(cache, k, outcome) ==
    IF outcome = "ok"
    THEN [files |-> cache.files \cup {k}, entries |-> cache.entries \cup {k}]
    ELSE cache

\* With the cache disabled the audio file is written to the output
\* directory and no CacheEntry is written.
WriteFile(cache, k, outcome) ==
    IF outcome = "ok"
    THEN [files |-> cache.files \cup {k}, entries |-> cache.entries]
    ELSE cache

\* ---------------------------------------------------------------- Fetcher
\* fetch(word, accent, timeout): bytes, or a FetchError of any kind; "Empty"
\* is a response that carries no audio.
FetchFails(outcome) == outcome \in FetchErrors

\* ----------------------------------------------------------- Orchestrator
\* The cache is consulted only when use_cache is set and force_download is
\* not.
CacheHit(cache, w, a, cfg) ==
    cfg.use_cache /\ ~cfg.force_download /\ Lookup(cache.entries, w, a)

\* resolve(word, accent, config): one call record
\* [cache, word, accent, hit, fetched, changed, result], result being
\* "path", "none" (no path, no error), "DownloadError" or "crash".
Resolve(cache, w, a, cfg, outcome) ==
    LET base == [cache |-> cache, word |-> w, accent |-> a,
                 hit |-> Lookup(cache.entries, w, a),
                 fetched |-> TRUE, changed |-> FALSE, result |-> "path"]
    IN  IF CacheHit(cache, w, a, cfg)
        THEN [base EXCEPT !.fetched = FALSE]
        ELSE IF FetchFails(outcome)
        THEN [base EXCEPT !.result = "DownloadError"]
        ELSE IF outcome = "Empty"
        THEN [base EXCEPT !.result = "none"]
        ELSE LET after == IF cfg.use_cache
                          THEN Store(cache, <<w, a>>, outcome)
                          ELSE WriteFile(cache, <<w, a>>, outcome)
             IN  [base EXCEPT !.cache = after,
                              !.changed = (after # cache),
                              !.result = CASE outcome = "ok" -> "path"
                                           [] outcome = "IOError" -> "DownloadError"
                                           [] OTHER -> "crash"]

CallRecord(r) == [word |-> r.word, accent |-> r.accent, hit |-> r.hit,
                  fetched |-> r.fetched, changed |-> r.changed,
                  result |-> r.result]

\* resolveAllAccents(word, config) from accent number k on: resolve is
\* called for each accent in turn, a failing accent is skipped, the paths
\* of the accents that succeeded are collected.  acc is
\* [cache, calls, paths, crashed].
RECURSIVE ResolveFrom(_, _, _, _, _)
ResolveFrom(k, acc, w, cfg, outs) ==
    IF k > Len(Accents) \/ acc.crashed
    THEN acc
    ELSE LET a == Accents[k]
             r == Resolve(acc.cache, w, a, cfg, outs[a])
         IN  ResolveFrom(k + 1,
                 [cache   |-> r.cache,
                  calls   |-> Append(acc.calls, CallRecord(r)),
                  paths   |-> IF r.result = "path"
                              THEN Append(acc.paths, <<w, a>>)
                              ELSE acc.paths,
                  crashed |-> r.result = "crash"],
                 w, cfg, outs)

\* download_all_accents(word): [cache, calls, paths, crashed, raised].
DownloadAllAccents(cache, w, cfg, outs) ==
    LET acc == ResolveFrom(1, [cache |-> cache, calls |-> <<>>,
                               paths |-> <<>>, crashed |-> FALSE],
                           w, cfg, outs)
    IN  [cache |-> acc.cache, calls |-> acc.calls, paths |-> acc.paths,
         crashed |-> acc.crashed, raised |-> "none"]

\* download_pronunciation(word, accent) followed by
\* paths = [path] if path else [].
DownloadPronunciation(cache, w, a, cfg, outs) ==
    LET r == Resolve(cache, w, a, cfg, outs[a])
    IN  [cache |-> r.cache, calls |-> <<CallRecord(r)>>,
         paths |-> IF r.result = "path" THEN <<<<w, a>>>> ELSE <<>>,
         crashed |-> r.result = "crash",
         raised |-> IF r.result = "DownloadError" THEN "DownloadError"
                    ELSE "none"]

\* DownloadConfig as it would be with use_cache=args.no_cache.
DownloadConfigInverted(a) ==
    [use_cache |-> a.no_cache, force_download |-> a.force_download]

\* DownloadConfig as it would be with force_download left at its default.
DownloadConfigNoForce(a) ==
    [use_cache |-> ~a.no_cache, force_download |-> FALSE]

\* DownloadConfig as it would be with use_cache left at its default.
DownloadConfigAlwaysCache(a) ==
    [use_cache |-> TRUE, force_download |-> a.force_download]

\* -------------------------------------------------------------- cli.py
\* main: config = DownloadConfig(use_cache=not args.no_cache,
\*                               force_download=args.force_download)
DownloadConfig(a) ==
    [use_cache |-> ~a.no_cache, force_download |-> a.force_download]

\* process_words, the body of the try of one loop iteration: the call into
\* the downloader, which may raise by itself (fault).
WordResult(cache, w, accent, cfg, fault, outs) ==
    IF fault # "none"
    THEN [cache |-> cache, calls |-> <<>>, paths |-> <<>>,
          crashed |-> FALSE, raised |-> fault]
    ELSE IF accent = "all"
    THEN DownloadAllAccents(cache, w, cfg, outs)
    ELSE DownloadPronunciation(cache, w, accent, cfg, outs)

\* WordFailed as it would be if a word counted only when every accent
\* yielded a path.
WordFailedStrict(r) == r.raised # "none" \/ Len(r.paths) < Len(r.calls)

\* process_words: the word failed when the call raised (either except
\* clause) or when paths is empty.
WordFailed(r) == r.raised # "none" \/ r.paths = <<>>

\* NextSuccess as it would be with success = bool(paths) in the loop: the
\* last word decides.
NextSuccessLastWins(s, r) == ~WordFailed(r)

\* process_words: success = False on a failed word, unchanged otherwise.
NextSuccess(s, r) == IF WordFailed(r) THEN FALSE ELSE s

\* LoopEnds as it would be with a return (or no try) on a failed word.
LoopEndsOnFailure(k, words, r) == k = Len(words) \/ WordFailed(r)

\* process_words: "for word in words" ends after the last word, whatever
\* the word's result r.
LoopEnds(k, words, r) == k = Len(words)

\* process_words: return 0 if success else 1
ExitCode(s) == IF s THEN 0 ELSE 1

\* InfoFound as it would be with "if info is not None": an empty mapping is
\* reported as found.
InfoFoundNotNone(ents, w) == TRUE

\* show_cache_info: "if info:" for one word.
InfoFound(ents, w) == GetCacheInfo(ents, w) # {}

\* show_cache_info: the lines printed for the words before the first call
\* that raises (failAt = 0: none raises).
CalledBefore(words, failAt) == IF failAt = 0 THEN Len(words) ELSE failAt - 1

\* The words handed to the downloader, the raising call included.
CalledWords(words, failAt) ==
    IF failAt = 0 \/ Len(words) = 0 THEN words ELSE SubSeq(words, 1, failAt)

InfoLines(ents, words, failAt) ==
    [j \in 1..CalledBefore(words, failAt) |->
        [word |-> words[j], found |-> InfoFound(ents, words[j])]]

\* ClearWords as it would be with the try inside the loop: a word whose
\* clearing raises is skipped and all the others are cleared.
RECURSIVE ClearWordsSkipping(_, _, _, _)
ClearWordsSkipping(cache, words, k, n) ==
    IF k > Len(words) THEN cache
    ELSE ClearWordsSkipping(IF k = n + 1 THEN cache
                            ELSE ClearWord(cache, words[k]),
                            words, k + 1, n)

\* clear_cache: for word in words: downloader.clear_cache(word), for the
\* words k..n.
RECURSIVE ClearWords(_, _, _, _)
ClearWords(cache, words, k, n) ==
    IF k > n THEN cache
    ELSE ClearWords(ClearWord(cache, words[k]), words, k + 1, n)

CanStart == pc = "idle"

Cached(ents) == {k[1] : k \in ents}

\* An invocation begins: everything of the previous one is forgotten but
\* the cache directory.
Begin(a) ==
    /\ args' = a
    /\ config' = DownloadConfig(a)
    /\ i' = 1
    /\ success' = TRUE
    /\ calls' = <<>>
    /\ paths' = <<>>
    /\ raised' = "none"
    /\ produced' = <<>>

\* parse_args: --no-cache and --force-download are drawn for download, the
\* one command whose behaviour reads them.
ArgsOf(cmd, ws, acc) ==
    LET flags == IF cmd = "download" THEN BOOLEAN ELSE {FALSE}
    IN  {[command |-> cmd, words |-> ws, accent |-> acc,
          no_cache |-> nc, force_download |-> fd] : nc, fd \in flags}

\* main, line 164: GooglePronunciationDownloader(config) raises; the call
\* is made before the try, so the exception leaves main.  The words play
\* no part before the constructor: one list per command is drawn.
MainCtorRaises ==
    /\ CanStart
    /\ \E cmd \in {"none", "download", "cache-info", "clear-cache"} :
       \E ws \in {l \in WordLists : Len(l) = IF cmd = "download" THEN 1 ELSE 0} :
       \E a \in ArgsOf(cmd, ws, "all") :
           /\ Begin(a)
           /\ pc' = "escaped"
           /\ exit' = -1
           /\ attempted' = <<>>
           /\ output' = <<>>
           /\ UNCHANGED <<files, entries, cleared, emptied>>

\* main: no command given.
MainNoCommand ==
    /\ CanStart
    /\ \E a \in ArgsOf("none", <<>>, "all") :
           /\ Begin(a)
           /\ pc' = "returned"
           /\ exit' = 1
           /\ attempted' = <<>>
           /\ output' = <<>>
           /\ UNCHANGED <<files, entries, cleared, emptied>>

\* main -> process_words up to the loop.  The downloader built at line 92
\* may raise: main's except returns 1.
MainDownload ==
    /\ CanStart
    /\ \E ws \in WordLists : \E acc \in AccentChoices :
       \E a \in ArgsOf("download", ws, acc) : \E ctorRaises \in BOOLEAN :
           /\ Len(ws) > 0
           /\ Begin(a)
           /\ pc' = IF ctorRaises THEN "returned" ELSE "download"
           /\ exit' = IF ctorRaises THEN 1 ELSE -1
           /\ attempted' = <<>>
           /\ output' = <<>>
           /\ UNCHANGED <<files, entries, cleared, emptied>>

\* The outcomes drawn for one accent of one word: any, when the accent is
\* fetched (asked for and not served from the cache), "ok" otherwise.
OutcomeChoices(cache, w, a, accent, cfg, fault) ==
    IF fault = "none" /\ accent \in {"all", a} /\ ~CacheHit(cache, w, a, cfg)
    THEN Outcomes
    ELSE {"ok"}

\* process_words: one iteration of the loop, and the return after the last.
ProcessWord ==
    /\ pc = "download"
    /\ i <= Len(args.words)
    /\ \E fault \in Faults :
       \E og \in OutcomeChoices([files |-> files, entries |-> entries],
                                args.words[i], "gb", args.accent, config, fault) :
       \E ou \in OutcomeChoices([files |-> files, entries |-> entries],
                                args.words[i], "us", args.accent, config, fault) :
       \E r \in {WordResult([files |-> files, entries |-> entries],
                            args.words[i], args.accent, config, fault,
                            [a \in AccentSet |-> IF a = "gb" THEN og ELSE ou])} :
            /\ files' = r.cache.files
            /\ entries' = r.cache.entries
            /\ calls' = r.calls
            /\ paths' = r.paths
            /\ raised' = r.raised
            /\ attempted' = Append(attempted, args.words[i])
            /\ produced' = Append(produced, r.paths # <<>>)
            /\ cleared' = cleared \ {args.words[i]}
            /\ emptied' = emptied \ {args.words[i]}
            /\ IF r.crashed
               THEN /\ pc' = "crashed"
                    /\ UNCHANGED <<i, success, exit>>
               ELSE /\ success' = NextSuccess(success, r)
                    /\ i' = i + 1
                    /\ pc' = IF LoopEnds(i, args.words, r)
                             THEN "returned" ELSE "download"
                    /\ exit' = IF LoopEnds(i, args.words, r)
                               THEN ExitCode(NextSuccess(success, r)) ELSE -1
    /\ UNCHANGED <<args, config, output>>

\* main -> show_cache_info.  failAt is the call of get_cache_info that
\* raises, 0 when none does.
MainCacheInfo ==
    /\ CanStart
    /\ \E ws \in WordLists : \E a \in ArgsOf("cache-info", ws, "all") :
       \E failAt \in 0..(IF Len(ws) = 0 THEN 1 ELSE Len(ws)) :
           /\ Begin(a)
           /\ pc' = "returned"
           /\ output' = IF Len(ws) > 0
                        THEN InfoLines(entries, ws, failAt)
                        ELSE IF failAt # 0 THEN <<>>
                        ELSE <<[word |-> "*", found |-> entries # {}]>>
           /\ attempted' = CalledWords(ws, failAt)
           /\ exit' = IF failAt = 0 THEN 0 ELSE 1
           /\ UNCHANGED <<files, entries, cleared, emptied>>

\* main -> clear_cache.  failAt is the call of downloader.clear_cache that
\* raises, 0 when none does; a call that raises removes nothing.
MainClearCache ==
    /\ CanStart
    /\ \E ws \in WordLists : \E a \in ArgsOf("clear-cache", ws, "all") :
       \E failAt \in 0..(IF Len(ws) = 0 THEN 1 ELSE Len(ws)) :
           LET cache == [files |-> files, entries |-> entries]
               after == IF Len(ws) > 0
                        THEN ClearWords(cache, ws, 1, CalledBefore(ws, failAt))
                        ELSE IF failAt # 0 THEN cache ELSE ClearAll(cache)
               done == IF Len(ws) > 0
                       THEN {ws[j] : j \in 1..CalledBefore(ws, failAt)}
                       ELSE IF failAt # 0 THEN {} ELSE Words
           IN  /\ Begin(a)
               /\ pc' = "returned"
               /\ files' = after.files
               /\ entries' = after.entries
               /\ attempted' = CalledWords(ws, failAt)
               /\ exit' = IF failAt = 0 THEN 0 ELSE 1
               /\ cleared' = cleared \cup done
               /\ emptied' = emptied \cup (done \cap Cached(entries))
               /\ output' = <<>>

\* No invocation is running: nothing is in memory.
NoProcess ==
    /\ pc = "idle"
    /\ args = NoArgs
    /\ config = DownloadConfig(NoArgs)
    /\ i = 1
    /\ success = TRUE
    /\ exit = -1
    /\ attempted = <<>>
    /\ produced = <<>>
    /\ calls = <<>>
    /\ paths = <<>>
    /\ raised = "none"
    /\ output = <<>>

\* sys.exit(main()): the process ends, by the return of main, by the
\* exception that left it or by being killed; the cache directory stays.
ProcessExit ==
    /\ pc \in {"returned", "escaped", "crashed"}
    /\ pc' = "idle"
    /\ args' = NoArgs
    /\ config' = DownloadConfig(NoArgs)
    /\ i' = 1
    /\ success' = TRUE
    /\ exit' = -1
    /\ attempted' = <<>>
    /\ produced' = <<>>
    /\ calls' = <<>>
    /\ paths' = <<>>
    /\ raised' = "none"
    /\ output' = <<>>
    /\ UNCHANGED <<files, entries, cleared, emptied>>

Init ==
    /\ files = {}
    /\ entries = {}
    /\ cleared = {}
    /\ emptied = {}
    /\ NoProcess

Next ==
    \/ MainCtorRaises
    \/ MainNoCommand
    \/ MainDownload
    \/ ProcessWord
    \/ MainCacheInfo
    \/ MainClearCache
    \/ ProcessExit

Spec == Init /\ [][Next]_vars

\* ------------------------------------------------------------ properties
Range(f) == {f[k] : k \in DOMAIN f}

\* process_words ran its loop to the end and returned.
DownloadReturned ==
    pc = "returned" /\ args.command = "download" /\ attempted # <<>>

\* C1: the download command returns 0 exactly when every requested word
\* yielded at least one path, and 1 as soon as one word yielded none or
\* raised, wherever that word is in the list.
C1_ExitCodeIffAllProduced ==
    (pc = "returned" /\ args.command = "download") =>
        /\ exit \in {0, 1}
        /\ DownloadReturned => Len(produced) = Len(args.words)
        /\ exit = 0 <=> /\ Len(produced) = Len(args.words)
                        /\ \A k \in 1..Len(produced) : produced[k]

\* C1 witness: the first word failed, the last one succeeded, exit code 1.
C1_Witness ==
    /\ DownloadReturned
    /\ Len(args.words) = MaxWords
    /\ ~produced[1]
    /\ produced[Len(produced)]
    /\ exit = 1

\* C2: a failing word never ends the loop of the download command: the
\* words handed to the downloader are always the first i-1 words of the
\* list, in list order, and the command returns only after the last one.
C2_EveryWordAttempted ==
    (args.command = "download" /\ pc \in {"download", "returned"}) =>
        /\ i - 1 <= Len(args.words)
        /\ attempted = SubSeq(args.words, 1, i - 1)
        /\ DownloadReturned => attempted = args.words

\* C2 witness: the command returned after a list whose first word raised
\* and whose words were all attempted.
C2_Witness ==
    /\ DownloadReturned
    /\ Len(args.words) = MaxWords
    /\ ~produced[1]
    /\ args.words[1] # args.words[2]
    /\ attempted = args.words
    /\ raised # "none"

Orphans == files \ entries

C4_HitSkipsFetch ==
    \A k \in DOMAIN calls :
        (~args.no_cache /\ ~args.force_download /\ calls[k].hit) =>
            /\ ~calls[k].fetched
            /\ ~calls[k].changed
            /\ calls[k].result = "path"
            /\ <<calls[k].word, calls[k].accent>> \in Range(paths)

\* C4 witness: a resolve served from the cache.
C4_Witness ==
    \E k \in DOMAIN calls :
        /\ ~args.no_cache /\ ~args.force_download
        /\ calls[k].hit /\ ~calls[k].fetched

\* C5: with --force-download every resolve invokes the Fetcher, also for a
\* key that has a CacheEntry, with the cache enabled or disabled.
C5_ForceAlwaysFetches ==
    \A k \in DOMAIN calls : args.force_download => calls[k].fetched

\* C5 witness: a forced resolve of a cached key, cache enabled.
C5_Witness ==
    \E k \in DOMAIN calls :
        /\ args.force_download /\ ~args.no_cache
        /\ calls[k].hit /\ calls[k].fetched

\* C6: no step of a download run with --no-cache changes the set of
\* CacheEntries, successful fetches included.
C6_NoCacheLeavesEntries ==
    [][(args.command = "download" /\ args.no_cache) => entries' = entries]_vars

\* C6 witness: a --no-cache run that fetched a file for a key and returned
\* 0, the entries of the earlier runs being all there are.
C6_Witness ==
    /\ DownloadReturned
    /\ args.no_cache
    /\ exit = 0
    /\ entries # {}
    /\ \E k \in Range(paths) : k \in files \ entries

\* C7: cache-info reports no entry for a word that was cleared (by name, or
\* by a clear-cache without words) and not downloaded since.
C7_ClearedIsAbsent ==
    (pc = "returned" /\ args.command = "cache-info") =>
        \A k \in DOMAIN output :
            output[k].word \in cleared => ~output[k].found

\* C7 witness: cache-info of a word whose entries a clear-cache removed.
C7_Witness ==
    /\ pc = "returned"
    /\ args.command = "cache-info"
    /\ \E k \in DOMAIN output :
        output[k].word \in emptied /\ ~output[k].found

\* C8: for "all", resolve is called once for GB and once for US whatever
\* the first one's result, the call does not raise, the paths are those of
\* the accents that succeeded, and the word counts as a success exactly
\* when there is one.
C8_AllAccentsIndependent ==
    (args.command = "download" /\ args.accent = "all" /\ calls # <<>>
        /\ pc # "crashed") =>
        /\ Len(calls) = Len(Accents)
        /\ \A k \in DOMAIN calls :
              calls[k].accent = Accents[k] /\ calls[k].word = attempted[i - 1]
        /\ raised = "none"
        /\ Range(paths) = {<<calls[k].word, calls[k].accent>> :
                              k \in {j \in DOMAIN calls : calls[j].result = "path"}}
        /\ produced[i - 1] = (paths # <<>>)
        /\ (\A k \in 1..(i - 2) : produced[k]) => (success <=> paths # <<>>)

\* C8 witness: GB failed, US succeeded, the word counts as a success.
C8_Witness ==
    /\ args.command = "download" /\ args.accent = "all"
    /\ Len(calls) = 2
    /\ calls[1].result = "DownloadError"
    /\ calls[2].result = "path"
    /\ Len(paths) = 1
    /\ success
    /\ exit = 0

\* C9 as claimed: no error leaves main; an invocation that ended returned
\* an exit code.
C9_NoErrorEscapesMain == pc # "escaped"

\* C10: clear-cache with words clears them in list order up to the first
\* one whose clearing raises: the words before it are cleared, the words
\* after it keep their files and entries, exit code 1; when none raises all
\* are cleared, exit code 0.
C10_ClearStopsAtFirstError ==
    [][(pc = "idle" /\ args'.command = "clear-cache" /\ args'.words # <<>>) =>
        LET ws == args'.words
            n == Len(attempted')
            before == {ws[j] : j \in 1..(n - 1)}
            later == {ws[j] : j \in (n + 1)..Len(ws)} \ Range(attempted')
        IN  /\ pc' = "returned"
            /\ n >= 1
            /\ attempted' = SubSeq(ws, 1, n)
            /\ exit' \in {0, 1}
            /\ exit' = 0 =>
                  /\ n = Len(ws)
                  /\ \A w \in Range(ws) :
                        ClearWord([files |-> files', entries |-> entries'], w)
                            = [files |-> files', entries |-> entries']
            /\ exit' = 1 =>
                  /\ \A w \in before :
                        ClearWord([files |-> files', entries |-> entries'], w)
                            = [files |-> files', entries |-> entries']
                  /\ \A k \in Keys :
                        k[1] \in later =>
                            /\ k \in files' <=> k \in files
                            /\ k \in entries' <=> k \in entries
       ]_vars

\* C10 witness: the clearing of the first word raised; the second word,
\* another one, is still cached; exit code 1.
C10_Witness ==
    /\ pc = "returned"
    /\ args.command = "clear-cache"
    /\ Len(args.words) = 2
    /\ Len(attempted) = 1
    /\ exit = 1
    /\ args.words[2] # args.words[1]
    /\ args.words[2] \in Cached(entries)

====
